---- MODULE Spec2Model ----
(***************************************************************************)
(* Model of the LinkedIn job application agent.                            *)
(*                                                                         *)
(* The repository is a set of classes that drive a browser.  Each part of  *)
(* this module models the methods of one class, statement by statement as  *)
(* far as control flow and stored data go.  The browser, the site and the  *)
(* language-model gateway are the environment: what a lookup, a wait or a  *)
(* request yields is chosen with \E from the outcomes the call can have    *)
(* (an element is found or not, a call raises or not).                     *)
(*                                                                         *)
(* Parts, each with its own specification:                                 *)
(*   SpecAI       ai_assistant.py      analyze_job                         *)
(*   SpecApply    linkedin_auto_apply  apply_to_jobs, the Easy Apply walk  *)
(*                                     and save_job_details                *)
(*   SpecStore    linkedin_auto_apply  save_job_details called by itself,  *)
(*                utils/database.py    DatabaseManager.add_job             *)
(*   SpecSteps    linkedin_jobs.py     process_application_steps and       *)
(*                                     fill_form_fields                    *)
(*   SpecForm     linkedin_apply.py    fill_application_form               *)
(*   SpecListings linkedin_jobs.py     get_job_listings                    *)
(*   SpecWrites   linkedin_auto_apply  the three writes of the store       *)
(*   SpecRun      linkedin_auto_apply  main and run                        *)
(*   SpecJob      linkedin_apply.py    apply_to_job and its walk, with     *)
(*                ai_assistant.py      extract_job_details                 *)
(*   SpecCheck    linkedin_captcha.py  check_for_security_verification of  *)
(*                                     the three classes that have one     *)
(*   SpecLogin    linkedin_login.py    login, attempt_login and            *)
(*                                     wait_for_security_check             *)
(***************************************************************************)
EXTENDS Integers, Sequences, FiniteSets, TLC

VARIABLES
    \* ---- ai_assistant.py
    api_key,        \* AIJobAssistant.api_key is set (AIM_API_KEY present)
    gateway,        \* what the gateway yields to the request of this call
    analysis,       \* what analyze_job returned, once it has been called
    \* ---- linkedin_auto_apply.py: the store
    db_enabled,     \* LinkedInAutoApply.db_enabled (setup_database succeeded)
    jobs,           \* rows of table jobs of linkedin_applications.db
    save_calls,     \* history: the save_job_details calls that got past the
                    \* db_enabled test, in order
    \* ---- utils/database.py
    dm_jobs,        \* rows of table jobs of DatabaseManager's jobs.db
    dm_next_id,     \* the next AUTOINCREMENT id of that table
    add_calls,      \* history: the add_job calls, in order, with their result
    \* ---- linkedin_auto_apply.py: apply_to_jobs and the Easy Apply walk
    a_pc,           \* where apply_to_jobs is
    max_applications, \* its parameter (0 stands for None)
    job_cards,      \* number of job cards found
    card,           \* index of the job card the for loop is at
    job_id,         \* local job_id of apply_to_jobs ("unset" until assigned)
    current_job,    \* the job id in driver.current_url
    applications_submitted,
    submit_clicks,  \* history: Submit clicks of the current walk
    next_clicks,    \* history: Next clicks of the current walk
    walk_result,    \* what handle_easy_apply_process returned
    walk_mark,      \* history: Len(save_calls) when the walk was called
    walk_end,       \* history: Len(save_calls) when apply_to_jobs had
                    \* dealt with the walk's result
    card_log,       \* history: what became of each card of the for loop
    walk_cause,     \* history: why the walk returned
    \* ---- linkedin_jobs.py: process_application_steps
    p_pc,           \* where process_application_steps is
    current_step,
    p_result,       \* what it returned, or the exception it raised
    required_fields, \* the fields get_required_fields found on this step
    form,           \* the same fields after fill_form_fields
    p_clicked,      \* the control clicked on this step
    \* ---- linkedin_apply.py: fill_application_form
    f_pc,           \* where fill_application_form is
    form_fields,    \* the fields of the page, as they are now
    loaded,         \* history: the fields as the page was loaded
    field_index,    \* the field the for loop is at
    suggested,      \* history: the value get_form_field_value gave each field
    f_pages,        \* pages loaded so far
    f_result,
    questions,      \* the screening questions of the page, as they are now
    q_loaded,       \* the screening questions as line 189 found them
    q_index,        \* the question the second for loop is at
    answers,        \* history: the answer obtained for each question
    \* ---- linkedin_jobs.py: get_job_listings
    l_pc,           \* where get_job_listings is
    max_jobs,
    jobs_processed,
    retry_count,
    l_result,       \* what it returned, or the exception it raised
    l_remaining,    \* cards the for loop has still to go through
    l_passes,       \* passes of the while loop that found cards
    empty_attempts, \* history: passes that found no card
    l_found,        \* the number of cards the pass found (len(job_cards))
    l_clicked,      \* history: for each card, by its place in the list, the
                    \* passes in which its Easy Apply button was clicked
    \* ---- linkedin_auto_apply.py: the writes of the store
    w_last,         \* the write called last
    w_inner,        \* what its try block raised
    w_raised,       \* what the write raised to its caller
    w_count,        \* writes called so far
    form_field_rows, \* rows of the table form_fields
    attempt_rows,   \* rows of the table application_attempts
    \* ---- linkedin_auto_apply.py: main and run
    r_pc,           \* where main and run are
    config,         \* which settings .env.local holds
    r_max_jobs,     \* MAX_JOBS
    login_result,   \* what login_handler.login() did
    r_searches,     \* history: calls of search_jobs
    r_listings,     \* history: calls of get_job_listings
    r_applications, \* history: calls of apply_to_job
    r_passes,       \* passes of `while True` begun
    exit_status,    \* the status the process exited with
    \* ---- linkedin_apply.py: apply_to_job
    j_pc,           \* where apply_to_job is
    j_key,          \* AIJobAssistant.api_key is set
    posting,        \* the steps of the job's Easy Apply modal
    j_response,     \* what the gateway yielded for the extraction
    details,        \* what extract_job_details returned
    j_analysed,     \* history: analyze_job was called
    j_searched,     \* history: the Easy Apply button was looked for
    j_step,         \* the step of the modal that is shown
    j_clicked,      \* history: the buttons clicked, in order
    j_result,       \* what apply_to_job returned
    \* ---- check_for_security_verification
    v_pc,           \* where the handler is
    v_handler,      \* the class whose method it is
    v_context,      \* the frame the driver is switched to
    v_iframes,      \* iframes the for loop has still to go through
    v_wait,         \* the call of wait_for_verification_completion that runs
    v_elapsed,      \* time.time() - start_time of that call, in seconds
    v_auto,         \* history: what became of the automatic resolution
    v_manual,       \* history: the wait of line 95 was called
    v_result,       \* what the handler returned
    \* ---- linkedin_login.py: login
    g_pc,           \* where login is
    g_attempt,      \* attempt of the running attempt_login
    g_check,        \* attempt of the running wait_for_security_check
    g_stack,        \* attempt of each attempt_login that waits for a
                    \* nested login() to return
    g_submits,      \* history: clicks on the login button
    g_result        \* what login returned

aiVars == <<api_key, gateway, analysis>>

storeVars == <<db_enabled, jobs, save_calls>>

dmVars == <<dm_jobs, dm_next_id, add_calls>>

applyVars ==
    <<a_pc, max_applications, job_cards, card, job_id, current_job,
      applications_submitted, submit_clicks, next_clicks, walk_result, walk_mark,
      walk_end, card_log, walk_cause>>

stepsVars ==
    <<p_pc, current_step, p_result, required_fields, form, p_clicked>>

formVars ==
    <<f_pc, form_fields, loaded, field_index, suggested, f_pages, f_result,
      questions, q_loaded, q_index, answers>>

listVars ==
    <<l_pc, max_jobs, jobs_processed, retry_count, l_result, l_remaining, l_passes,
      l_found, l_clicked,
      empty_attempts>>

writeVars == <<w_last, w_inner, w_raised, w_count, form_field_rows, attempt_rows>>

\* the variables of the parts added after the first six
runVars ==
    <<r_pc, config, r_max_jobs, login_result, r_searches, r_listings,
      r_applications, r_passes, exit_status>>

jobVars ==
    <<j_pc, j_key, posting, j_response, details, j_analysed, j_searched, j_step,
      j_clicked, j_result>>

checkVars ==
    <<v_pc, v_handler, v_context, v_iframes, v_wait, v_elapsed, v_auto, v_manual,
      v_result>>

loginVars == <<g_pc, g_attempt, g_check, g_stack, g_submits, g_result>>

lastVars == <<checkVars, loginVars>>

moreVars == <<writeVars, runVars, jobVars, lastVars>>

vars == <<aiVars, storeVars, dmVars, applyVars, stepsVars, formVars, listVars,
          moreVars>>

(***************************************************************************)
(* Python strings are sequences of one-character strings.                  *)
(***************************************************************************)
MaxLen == 7

Alphabet == {"Y", "e", "s", " ", "|"}

\* a string of k characters is a function from 1..k to the characters
StringsUpTo(n) == UNION {[1..k -> Alphabet] : k \in 0..n}

Strings == StringsUpTo(MaxLen)

\* str.lower()
LowerChar(c) == IF c = "Y" THEN "y" ELSE c

Lower(s) == [i \in 1..Len(s) |-> LowerChar(s[i])]

\* str.strip(): leading and trailing whitespace removed
RECURSIVE LStrip(_)
LStrip(s) == IF s # << >> /\ Head(s) = " " THEN LStrip(Tail(s)) ELSE s

RECURSIVE RStrip(_)
RStrip(s) ==
    IF s # << >> /\ s[Len(s)] = " " THEN RStrip(SubSeq(s, 1, Len(s) - 1)) ELSE s

Strip(s) == RStrip(LStrip(s))

\* str.split(sep): the pieces between the separators, empty pieces kept
RECURSIVE SplitFrom(_, _, _, _)
SplitFrom(s, sep, i, piece) ==
    IF i > Len(s) THEN <<piece>>
    ELSE IF s[i] = sep THEN <<piece>> \o SplitFrom(s, sep, i + 1, << >>)
    ELSE SplitFrom(s, sep, i + 1, Append(piece, s[i]))

Split(s, sep) == SplitFrom(s, sep, 1, << >>)

yes == <<"y", "e", "s">>

(***************************************************************************)
(* ai_assistant.py                                                         *)
(***************************************************************************)
\* What requests.post / raise_for_status / the JSON lookup can do: raise, or
\* hand back the content string.
GatewayOutcomes ==
    {[kind |-> "error", content |-> << >>]}
        \cup {[kind |-> "ok", content |-> s] : s \in Strings}

None == [none |-> TRUE, v |-> << >>]

Str(s) == [none |-> FALSE, v |-> s]

\* _make_api_request: any exception is logged and None is returned
make_api_request(outcome) ==
    IF outcome.kind = "error" THEN None ELSE Str(outcome.content)

\* Python truth of an optional string: None and "" are falsy
Falsy(x) == x.none \/ x.v = << >>

Skipped == "AI analysis skipped"

Failed == "AI analysis failed, proceeding anyway"

FromResponse == "reason from the response"

analyze_job_mutant(key, outcome) ==
    IF ~key THEN [should_apply |-> TRUE, message |-> Skipped, reason |-> << >>]
    ELSE LET result == make_api_request(outcome)
         IN  IF Falsy(result)
             THEN [should_apply |-> FALSE, message |-> Failed, reason |-> << >>]
             ELSE LET parts == Split(result.v, "|")
                  IN  IF Len(parts) # 4
                      THEN [should_apply |-> FALSE, message |-> Failed, reason |-> << >>]
                      ELSE [should_apply |-> Strip(Lower(parts[1])) = yes,
                            message |-> FromResponse, reason |-> parts[2]]

\* analyze_job: (should_apply, reason).  The four-way unpacking of
\* result.split('|') raises ValueError unless there are exactly four pieces;
\* the except clause turns every exception into "proceed anyway".
analyze_job(key, outcome) ==
    IF ~key THEN [should_apply |-> TRUE, message |-> Skipped, reason |-> << >>]
    ELSE LET result == make_api_request(outcome)
         IN  IF Falsy(result)
             THEN [should_apply |-> TRUE, message |-> Failed, reason |-> << >>]
             ELSE LET parts == Split(result.v, "|")
                  IN  IF Len(parts) # 4
                      THEN [should_apply |-> TRUE, message |-> Failed, reason |-> << >>]
                      ELSE [should_apply |-> Strip(Lower(parts[1])) = yes,
                            message |-> FromResponse, reason |-> parts[2]]

NoAnalysis == [should_apply |-> TRUE, message |-> "none", reason |-> << >>]

IdleAI ==
    /\ api_key = FALSE
    /\ gateway = [kind |-> "error", content |-> << >>]
    /\ analysis = NoAnalysis

StartAI ==
    /\ api_key \in BOOLEAN
    /\ gateway \in GatewayOutcomes
    /\ analysis = NoAnalysis

AnalyzeJob ==
    /\ analysis = NoAnalysis
    /\ analysis' = analyze_job(api_key, gateway)
    /\ UNCHANGED <<api_key, gateway>>

(***************************************************************************)
(* linkedin_auto_apply.py: the store                                       *)
(***************************************************************************)
JobIds == {"j1", "j2"}

Terminal == {"APPLIED", "FAILED", "ERROR", "SKIPPED"}

Statuses == {"PENDING"} \cup Terminal

\* INSERT OR REPLACE on a table whose key is job_id: the row of that key, if
\* any, is deleted and the new row inserted
InsertOrReplace(table, row) ==
    {r \in table : r.job_id # row.job_id} \cup {row}

\* Line 25 is `import datetime`, so the name datetime is the module, and the
\* module has no attribute now: datetime.now() raises AttributeError
datetime_now == "AttributeError"

\* save_job_details, the table after the call.  The timestamps are computed
\* while the parameter tuple of cursor.execute is built, so an exception
\* there leaves the table as it was; the except clause logs it and returns.
save_job_details(id, status, failure_reason) ==
    IF ~db_enabled THEN jobs
    ELSE IF datetime_now = "AttributeError" THEN jobs
    ELSE InsertOrReplace(jobs, [job_id |-> id, status |-> status,
                                failure_reason |-> failure_reason])

\* the history of calls after the call
SaveCalled(calls, id, status, failure_reason) ==
    IF ~db_enabled THEN calls
    ELSE Append(calls, [job_id |-> id, status |-> status,
                        failure_reason |-> failure_reason])

\* is_already_applied: False when the store is disabled; otherwise the
\* applied_jobs cache (filled from the table by load_applied_jobs) and the
\* table are asked for an APPLIED row
is_already_applied(id) ==
    /\ db_enabled
    /\ \E r \in jobs : r.job_id = id /\ r.status = "APPLIED"

IdleStore ==
    /\ db_enabled = FALSE
    /\ jobs = {}
    /\ save_calls = << >>

\* setup_database either succeeded or failed; the database is new
StartStore ==
    /\ db_enabled \in BOOLEAN
    /\ jobs = {}
    /\ save_calls = << >>

MaxSaves == 2

\* save_job_details called by itself
SaveJobDetails ==
    /\ Len(save_calls) < MaxSaves
    /\ \E id \in JobIds, status \in Statuses :
        /\ jobs' = save_job_details(id, status, "None")
        /\ save_calls' = SaveCalled(save_calls, id, status, "None")
    /\ UNCHANGED db_enabled

(***************************************************************************)
(* utils/database.py                                                       *)
(***************************************************************************)
\* add_job: INSERT OR REPLACE into a table with an AUTOINCREMENT id and a
\* UNIQUE job_id; True, or False when sqlite raised (nothing is written)
add_job(table, next_id, id, status) ==
    {r \in table : r.job_id # id}
        \cup {[id |-> next_id, job_id |-> id, application_status |-> status]}

IdleDm ==
    /\ dm_jobs = {}
    /\ dm_next_id = 1
    /\ add_calls = << >>

AddJob ==
    /\ Len(add_calls) < MaxSaves
    /\ \E id \in JobIds, status \in Statuses :
        \/ /\ dm_jobs' = add_job(dm_jobs, dm_next_id, id, status)
           /\ dm_next_id' = dm_next_id + 1
           /\ add_calls' = Append(add_calls, [job_id |-> id, status |-> status, ok |-> TRUE])
        \/ /\ add_calls' = Append(add_calls, [job_id |-> id, status |-> status, ok |-> FALSE])
           /\ UNCHANGED <<dm_jobs, dm_next_id>>

(***************************************************************************)
(* linkedin_auto_apply.py: apply_to_jobs and handle_easy_apply_process     *)
(*                                                                         *)
(* The methods read self.wait, which the class never assigns; the model    *)
(* takes it to be a WebDriverWait, as in the sibling classes.              *)
(***************************************************************************)
MaxCards == 2

MaxWalkIter == 11

\* a call of save_job_details made by a handler
Save(id, status, failure_reason) ==
    /\ jobs' = save_job_details(id, status, failure_reason)
    /\ save_calls' = SaveCalled(save_calls, id, status, failure_reason)
    /\ UNCHANGED db_enabled

NoSave == UNCHANGED storeVars

IdleApply ==
    /\ a_pc = "idle"
    /\ max_applications = 0
    /\ job_cards = 0
    /\ card = 0
    /\ job_id = "unset"
    /\ current_job = "search"
    /\ applications_submitted = 0
    /\ submit_clicks = 0
    /\ next_clicks = 0
    /\ walk_result = "none"
    /\ walk_mark = 0
    /\ walk_end = 0
    /\ card_log = << >>
    /\ walk_cause = "none"

StartApply ==
    /\ a_pc = "start"
    /\ max_applications \in {0, 1}
    /\ job_cards = 0
    /\ card = 0
    /\ job_id = "unset"
    /\ current_job = "search"
    /\ applications_submitted = 0
    /\ submit_clicks = 0
    /\ next_clicks = 0
    /\ walk_result = "none"
    /\ walk_mark = 0
    /\ walk_end = 0
    /\ card_log = << >>
    /\ walk_cause = "none"

walkVars ==
    <<submit_clicks, next_clicks, walk_result, walk_mark, walk_end, walk_cause>>

\* history: the card came to `event`; job is the job the card shows, as far
\* as the handler got to know it; mark is the number of writes asked of
\* the store before the card
Logged(event, job) ==
    card_log' = Append(card_log, [event |-> event, job |-> job,
                                  mark |-> Len(save_calls)])

\* lines 234-240: the wait for the job cards; a TimeoutException goes to
\* the outer except clause, which returns applications_submitted
ApplyToJobs ==
    /\ a_pc = "start"
    /\ \/ /\ \E n \in 1..MaxCards : job_cards' = n
          /\ card' = 1
          /\ a_pc' = "cards"
       \/ /\ a_pc' = "done"
          /\ UNCHANGED <<job_cards, card>>
    /\ UNCHANGED <<max_applications, job_id, current_job, applications_submitted,
                   walkVars, storeVars, card_log>>

AtCard == a_pc = "cards" /\ card <= job_cards

\* `continue`: the for loop goes to the next card
Continue ==
    /\ card' = card + 1
    /\ a_pc' = "cards"
    /\ UNCHANGED <<max_applications, job_cards, applications_submitted, walkVars>>

\* lines 245-246 and 253-254: handle_security_check reported a handled
\* verification, before or after the click on the card
SecurityCheckHandled ==
    /\ AtCard
    /\ \/ UNCHANGED current_job
       \/ \E j \in JobIds : current_job' = j
    /\ UNCHANGED job_id
    /\ NoSave
    /\ Logged("security", "unknown")
    /\ Continue

\* lines 249, 257: the click or the read of current_url raises before
\* job_id is assigned; lines 332-345 save ERROR if 'job_id' in locals()
CardClickRaises ==
    /\ AtCard
    /\ IF job_id # "unset" THEN Save(job_id, "ERROR", "error_msg") ELSE NoSave
    /\ UNCHANGED <<job_id, current_job>>
    /\ Logged("raised", "unknown")
    /\ Continue

\* lines 257-265: job_id is read, the details are not found
CardNoDetails ==
    /\ AtCard
    /\ \E j \in JobIds : current_job' = j /\ job_id' = j /\ Logged("no_details", j)
    /\ NoSave
    /\ Continue

\* lines 267-287 and 320-330: no apply button within the wait (Timeout), or
\* a button that is not Easy Apply
CardNoEasyApply ==
    /\ AtCard
    /\ \E j \in JobIds :
        /\ current_job' = j
        /\ job_id' = j
        /\ IF is_already_applied(j) THEN NoSave /\ Logged("already", j)
           ELSE /\ \/ Save(j, "SKIPPED", "No apply button found")
                   \/ Save(j, "SKIPPED", "Not an Easy Apply job")
                /\ Logged("no_easy_apply", j)
    /\ Continue

\* lines 273-292: an exception other than TimeoutException once job_id is
\* assigned (a stale element, a failing script); lines 332-345
CardRaises ==
    /\ AtCard
    /\ \E j \in JobIds :
        /\ current_job' = j
        /\ job_id' = j
        /\ IF is_already_applied(j) THEN NoSave /\ Logged("already", j)
           ELSE Save(j, "ERROR", "error_msg") /\ Logged("raised", j)
    /\ Continue

\* lines 289-295: the Easy Apply button is clicked and
\* handle_easy_apply_process is called
CardEasyApply ==
    /\ AtCard
    /\ \E j \in JobIds :
        /\ current_job' = j
        /\ job_id' = j
        /\ IF is_already_applied(j)
           THEN Continue /\ NoSave /\ Logged("already", j)
           ELSE /\ a_pc' = "walk_start"
                /\ walk_mark' = Len(save_calls)
                /\ submit_clicks' = 0
                /\ next_clicks' = 0
                /\ walk_result' = "none"
                /\ walk_cause' = "none"
                /\ Logged("walk", j)
                /\ NoSave
                /\ UNCHANGED <<max_applications, job_cards, card,
                               applications_submitted, walk_end>>

walkFrame ==
    UNCHANGED <<max_applications, job_cards, card, job_id, current_job,
                applications_submitted, walk_mark, walk_end, card_log>>

\* handle_easy_apply_process returns
Return(result, cause) ==
    /\ walk_result' = result
    /\ walk_cause' = cause
    /\ a_pc' = "walk_done"

\* lines 486-499, 545-547: the details of the job are not found (nothing is
\* saved), or PENDING is saved and the wait for the modal times out
WalkStartFails ==
    /\ a_pc = "walk_start"
    /\ \/ NoSave
       \/ Save(current_job, "PENDING", "None")
    /\ Return("False", "exception")
    /\ UNCHANGED <<submit_clicks, next_clicks>>
    /\ walkFrame

\* lines 486-499: PENDING is saved and the modal is there
WalkStart ==
    /\ a_pc = "walk_start"
    /\ Save(current_job, "PENDING", "None")
    /\ a_pc' = "walk"
    /\ UNCHANGED <<submit_clicks, next_clicks, walk_result, walk_cause>>
    /\ walkFrame

\* iterations of `while True` completed so far; each clicked one control
walk_steps == submit_clicks + next_clicks

InWalk == a_pc = "walk" /\ walk_steps < MaxWalkIter

\* lines 503-506: the success modal is there at the top of the iteration
WalkSent ==
    /\ InWalk
    /\ Save(current_job, "APPLIED", "None")
    /\ Return("True", "sent")
    /\ UNCHANGED <<submit_clicks, next_clicks>>
    /\ walkFrame

\* lines 515-528: Submit is found and clicked, the success modal appears
WalkSubmitSent ==
    /\ InWalk
    /\ submit_clicks' = submit_clicks + 1
    /\ Save(current_job, "APPLIED", "None")
    /\ Return("True", "sent")
    /\ UNCHANGED next_clicks
    /\ walkFrame

\* lines 515-528: Submit is clicked and no success modal appears; the try
\* block ends and `while True` goes round again
WalkSubmitNotSent ==
    /\ InWalk
    /\ submit_clicks' = submit_clicks + 1
    /\ NoSave
    /\ UNCHANGED <<a_pc, next_clicks, walk_result, walk_cause>>
    /\ walkFrame

\* lines 530-540: no Submit within the wait, Next is found and clicked
WalkNext ==
    /\ InWalk
    /\ next_clicks' = next_clicks + 1
    /\ NoSave
    /\ UNCHANGED <<a_pc, submit_clicks, walk_result, walk_cause>>
    /\ walkFrame

\* lines 541-543: neither control within the waits
WalkNoButton ==
    /\ InWalk
    /\ NoSave
    /\ Return("False", "no_button")
    /\ UNCHANGED <<submit_clicks, next_clicks>>
    /\ walkFrame

\* lines 545-547: an exception other than the TimeoutException of the two
\* waits is raised inside the loop (a stale element, a failing script)
WalkRaises ==
    /\ InWalk
    /\ NoSave
    /\ Return("False", "exception")
    /\ UNCHANGED <<submit_clicks, next_clicks>>
    /\ walkFrame

\* lines 295-318: apply_to_jobs saves APPLIED or FAILED after the walk
AfterWalk ==
    /\ a_pc = "walk_done"
    /\ IF walk_result = "True"
       THEN /\ applications_submitted' = applications_submitted + 1
            /\ Save(job_id, "APPLIED", "None")
            /\ IF max_applications # 0 /\ applications_submitted + 1 >= max_applications
               THEN a_pc' = "done" /\ UNCHANGED card
               ELSE a_pc' = "cards" /\ card' = card + 1
       ELSE /\ Save(job_id, "FAILED", "Failed during application process")
            /\ a_pc' = "cards"
            /\ card' = card + 1
            /\ UNCHANGED applications_submitted
    /\ walk_end' = Len(save_calls')
    /\ UNCHANGED <<max_applications, job_cards, job_id, current_job,
                   submit_clicks, next_clicks, walk_result, walk_mark,
                   card_log, walk_cause>>

\* line 347: the for loop is over
ApplyToJobsReturns ==
    /\ a_pc = "cards"
    /\ card > job_cards
    /\ a_pc' = "done"
    /\ UNCHANGED <<max_applications, job_cards, card, job_id, current_job,
                   applications_submitted, walkVars, storeVars, card_log>>

(***************************************************************************)
(* linkedin_jobs.py: process_application_steps, get_required_fields and    *)
(* fill_form_fields                                                        *)
(***************************************************************************)
\* LinkedInJobs.__init__ assigns driver, wait, keywords, location and
\* max_jobs, and no db_manager: reading self.db_manager raises
db_manager == "AttributeError"

\* line 993
max_steps == 10

MaxFields == 2

Empty == Str(<< >>)

\* the terms fill_form_fields looks for in a field's name; a name is
\* modelled by the set of these terms that occur in it
NameSamples == {{}, {"resume"}, {"experience"}}

\* a field as get_required_fields scrapes it; editable says whether
\* element.clear() and element.send_keys() succeed on it
Input(name, value, editable) ==
    [type |-> "input", name |-> name, current_value |-> value,
     input_type |-> "text", options |-> << >>, editable |-> editable]

\* a <select> is not an editable element: clear() raises on it
Select(value, options) ==
    [type |-> "select", name |-> {}, current_value |-> value,
     input_type |-> "none", options |-> options, editable |-> FALSE]

Textarea(value) ==
    [type |-> "textarea", name |-> {}, current_value |-> value,
     input_type |-> "none", options |-> << >>, editable |-> TRUE]

FieldSamples ==
    {Input({}, Empty, TRUE), Input({"resume"}, Empty, TRUE),
     Input({}, Str(<<"x">>), TRUE), Input({"experience"}, None, FALSE),
     Select(Empty, <<"Maybe", "No">>), Textarea(Str(<<" ">>))}

RECURSIVE FieldLists(_)
FieldLists(n) ==
    IF n = 0 THEN {<< >>}
    ELSE LET shorter == FieldLists(n - 1)
         IN  shorter \cup {Append(l, f) : l \in {m \in shorter : Len(m) = n - 1},
                                            f \in FieldSamples}

\* get_required_fields: the visible required fields of the step
RequiredFields == FieldLists(MaxFields)

\* line 1139: the field already has a value
HasValue(field) ==
    ~Falsy(field.current_value) /\ Len(Strip(field.current_value.v)) > 0

\* lines 1147-1183: the value chosen for the field; "continue" where the loop
\* goes to the next field, "stale" where no branch assigns value
ChosenValue(field) ==
    IF field.name \cap {"year", "years", "experience"} # {} THEN <<"3">>
    ELSE IF field.name \cap {"salary", "compensation"} # {} THEN <<"80000">>
    ELSE IF "phone" \in field.name THEN <<"1234567890">>
    ELSE IF "website" \in field.name THEN <<"https://linkedin.com/in/myprofile">>
    ELSE IF field.name \cap {"resume", "cv"} # {} THEN "continue"
    ELSE IF field.type = "select"
         THEN IF Len(field.options) > 1 THEN "script" ELSE "stale"
    ELSE IF field.type = "input"
         THEN IF field.input_type = "text" THEN <<"Yes">>
              ELSE IF field.input_type = "number" THEN <<"3">>
              ELSE IF field.input_type = "tel" THEN <<"1234567890">>
              ELSE IF field.input_type = "url" THEN <<"https://linkedin.com">>
              ELSE <<"Yes">>
    ELSE IF field.type = "textarea" THEN <<"I am highly interested in this position">>
    ELSE "stale"

\* one turn of the for loop of fill_form_fields: the field afterwards and
\* the local variable value afterwards.  clear() and send_keys() are in a try
\* block whose except clause goes to the next field.
FillField(field, value) ==
    IF HasValue(field) THEN [field |-> field, value |-> value]
    ELSE LET chosen == ChosenValue(field)
         IN  IF chosen = "continue" THEN [field |-> field, value |-> value]
             ELSE IF chosen = "script"
                  THEN [field |-> [field EXCEPT !.current_value = Str(<<field.options[2]>>)],
                        value |-> value]
             ELSE LET v == IF chosen = "stale" THEN value ELSE chosen
                  IN  IF field.editable /\ v # "unbound"
                      THEN [field |-> [field EXCEPT !.current_value = Str(v)], value |-> v]
                      ELSE [field |-> field, value |-> v]

RECURSIVE FillFrom(_, _)
FillFrom(fields, value) ==
    IF fields = << >> THEN << >>
    ELSE LET one == FillField(Head(fields), value)
         IN  <<one.field>> \o FillFrom(Tail(fields), one.value)

\* fill_form_fields: the fields after the for loop
fill_form_fields(fields) == FillFrom(fields, "unbound")

IdleSteps ==
    /\ p_pc = "idle"
    /\ current_step = 0
    /\ p_result = "none"
    /\ required_fields = << >>
    /\ form = << >>
    /\ p_clicked = "none"

StartSteps ==
    /\ p_pc = "loop"
    /\ current_step = 0
    /\ p_result = "none"
    /\ required_fields = << >>
    /\ form = << >>
    /\ p_clicked = "none"

InLoop == p_pc = "loop" /\ current_step < max_steps

\* lines 1000-1030: whether a success indicator is displayed makes no
\* difference to the step: where one is, the read of self.db_manager at line
\* 1015 raises inside the try block and the bare except goes to the next
\* selector.  Then the required fields are scraped and filled.
CollectAndFill ==
    \E fields \in RequiredFields :
        /\ required_fields' = fields
        /\ form' = fill_form_fields(fields)

\* an exception raised to the caller of process_application_steps: the
\* except clause at lines 1103-1107 reads self.db_manager itself
Raise ==
    /\ p_result' = db_manager
    /\ p_pc' = "done"
    /\ UNCHANGED current_step

\* lines 1032-1058, 1096: a Submit control is displayed and enabled
StepSubmit ==
    /\ InLoop
    /\ CollectAndFill
    /\ p_clicked' = "Submit"
    /\ current_step' = current_step + 1
    /\ UNCHANGED <<p_pc, p_result>>

\* lines 1060-1088, 1096: no Submit control, a Next control
StepNext ==
    /\ InLoop
    /\ CollectAndFill
    /\ p_clicked' = "Next"
    /\ current_step' = current_step + 1
    /\ UNCHANGED <<p_pc, p_result>>

\* lines 1090-1094: neither control; line 1092 reads self.db_manager
StepNoButton ==
    /\ InLoop
    /\ CollectAndFill
    /\ p_clicked' = "none"
    /\ Raise

\* lines 1026-1030: fill_form_fields returned False (an element lookup in
\* it raised); line 1028 reads self.db_manager
StepFillFails ==
    /\ InLoop
    /\ \E fields \in RequiredFields :
        /\ fields # << >>
        /\ required_fields' = fields
        /\ form' = fields
    /\ p_clicked' = "none"
    /\ Raise

\* lines 1098-1101: max_steps iterations are done; line 1099 reads
\* self.db_manager
StepsExhausted ==
    /\ p_pc = "loop"
    /\ current_step >= max_steps
    /\ Raise
    /\ UNCHANGED <<required_fields, form, p_clicked>>

(***************************************************************************)
(* linkedin_apply.py: fill_application_form, with                          *)
(* ai_assistant.py: get_form_field_value                                   *)
(***************************************************************************)
MaxFormFields == 1
MaxQuestions == 1
MaxPages == 2

\* a text field of the form; field_type is what line 157 reads
FormText(value, editable) ==
    [field_type |-> "text", value |-> value, options |-> << >>,
     editable |-> editable]

\* a <select> of the form.  Line 157 reads get_attribute('type') first, and
\* falls back to the tag name; the browser decides which of the two names
\* the field gets.  clear() raises on a <select>.
FormSelect(field_type, value, options) ==
    [field_type |-> field_type, value |-> value, options |-> options,
     editable |-> FALSE]

FormFieldSamples ==
    {FormText(Empty, TRUE), FormText(Str(<<"x">>), TRUE),
     FormText(Str(<<"x">>), FALSE),
     FormSelect("select", Empty, <<"Maybe", "No">>),
     FormSelect("select", Str(<<"No">>), <<"Yes", "No">>),
     FormSelect("select-one", Empty, <<"Yes", "No">>),
     FormSelect("select", Empty, << >>)}

RECURSIVE FormFieldLists(_)
FormFieldLists(n) ==
    IF n = 0 THEN {<< >>}
    ELSE LET shorter == FormFieldLists(n - 1)
         IN  shorter \cup {Append(l, f) : l \in {m \in shorter : Len(m) = n - 1},
                                            f \in FormFieldSamples}

\* line 147: the fields find_elements returns
FormFields == FormFieldLists(MaxFormFields)

\* what the direct mappings of lines 57-73 yield for the field's label
MappedValues == {None, Str(<<"Jane">>)}

\* what _make_api_request yields for the field's prompt
FieldOutcomes ==
    {[kind |-> "error", content |-> << >>]}
        \cup {[kind |-> "ok", content |-> s] :
                  s \in {<<" ">>, <<"SKIP">>, <<"Yes", " ">>, <<"yes">>}}

get_form_field_value(mapped, outcome) ==
    IF ~Falsy(mapped) THEN mapped
    ELSE LET result == make_api_request(outcome)
         IN  IF Falsy(result) THEN None ELSE Str(Strip(result.v))

\* what _make_api_request yields for the prompt of a screening question
AnswerOutcomes ==
    {[kind |-> "error", content |-> << >>]}
        \cup {[kind |-> "ok", content |-> s] : s \in {<<" ">>, <<"SKIP">>, <<"yes">>}}

\* what handle_screening_question returns: None for a failed or empty
\* response, the stripped response otherwise
handle_screening_question(outcome) ==
    LET result == make_api_request(outcome)
    IN  IF Falsy(result) THEN None ELSE Str(Strip(result.v))

UsableMutant(value) == ~Falsy(value)

\* lines 168 and 208: if value and value != 'SKIP'
Usable(value) == ~Falsy(value) /\ value.v # <<"SKIP">>

\* Select.select_by_visible_text: the first option whose text is the value,
\* 0 where there is none (NoSuchElementException)
select_by_visible_text(options, value) ==
    IF \E i \in 1..Len(options) : <<options[i]>> = value.v
    THEN CHOOSE i \in 1..Len(options) :
            /\ <<options[i]>> = value.v
            /\ \A k \in 1..(i - 1) : <<options[k]>> # value.v
    ELSE 0

\* lines 171-175: the option selected, counted from 1; 0 where
\* select_by_index(0) raises because the <select> has no option
SelectedOption(options, value) ==
    LET by_text == select_by_visible_text(options, value)
    IN  IF by_text # 0 THEN by_text
        ELSE IF Len(options) > 0 THEN 1 ELSE 0

\* a screening question whose input is a text input or a textarea
TextQuestion(value) == [input |-> "text", value |-> value, labels |-> << >>]

\* a screening question answered with radio buttons; value is the label of
\* the button that is checked
RadioQuestion(value, labels) == [input |-> "radio", value |-> value, labels |-> labels]

QuestionSamples == {TextQuestion(Empty), RadioQuestion(Empty, <<"Yes", "No">>)}

RECURSIVE QuestionLists(_)
QuestionLists(n) ==
    IF n = 0 THEN {<< >>}
    ELSE LET shorter == QuestionLists(n - 1)
         IN  shorter \cup {Append(l, q) : l \in {m \in shorter : Len(m) = n - 1},
                                            q \in QuestionSamples}

\* line 189: the groupings find_elements returns
Questions == QuestionLists(MaxQuestions)

\* str.lower() of a word the form spells as one element
LowerWord(w) == IF w = "Yes" THEN "yes" ELSE IF w = "No" THEN "no" ELSE w

LowerWords(s) == [i \in 1..Len(s) |-> LowerWord(s[i])]

\* lines 216-221: the first radio button whose label is the answer, letter
\* case aside; 0 where there is none
MatchingRadio(labels, answer) ==
    IF \E i \in 1..Len(labels) : <<LowerWord(labels[i])>> = LowerWords(answer.v)
    THEN CHOOSE i \in 1..Len(labels) :
            /\ <<LowerWord(labels[i])>> = LowerWords(answer.v)
            /\ \A k \in 1..(i - 1) : <<LowerWord(labels[k])>> # LowerWords(answer.v)
    ELSE 0

IdleForm ==
    /\ f_pc = "idle"
    /\ form_fields = << >>
    /\ loaded = << >>
    /\ field_index = 1
    /\ suggested = << >>
    /\ f_pages = 0
    /\ f_result = "none"
    /\ questions = << >>
    /\ q_loaded = << >>
    /\ q_index = 1
    /\ answers = << >>

\* fill_application_form has been called and line 147 has returned
StartForm ==
    /\ f_pc = "fields"
    /\ form_fields \in FormFields
    /\ loaded = form_fields
    /\ field_index = 1
    /\ suggested = << >>
    /\ f_pages = 1
    /\ f_result = "none"
    /\ questions = << >>
    /\ q_loaded = << >>
    /\ q_index = 1
    /\ answers = << >>

questionVars == <<questions, q_loaded, q_index, answers>>

AtField == f_pc = "fields" /\ field_index <= Len(form_fields)

NextField(value) ==
    /\ field_index' = field_index + 1
    /\ suggested' = Append(suggested, value)
    /\ UNCHANGED <<f_pc, loaded, f_pages, f_result, questionVars>>

\* line 168 is false: nothing is done to the field
FormFieldSkipped ==
    /\ AtField
    /\ \E mapped \in MappedValues, outcome \in FieldOutcomes :
        LET value == get_form_field_value(mapped, outcome)
        IN  /\ ~Usable(value)
            /\ NextField(value)
    /\ UNCHANGED form_fields

\* lines 170-175: a select field
FormFieldSelected ==
    /\ AtField
    /\ form_fields[field_index].field_type = "select"
    /\ \E mapped \in MappedValues, outcome \in FieldOutcomes :
        LET value == get_form_field_value(mapped, outcome)
            options == form_fields[field_index].options
            selected == SelectedOption(options, value)
        IN  /\ Usable(value)
            /\ selected # 0
            /\ form_fields' =
                   [form_fields EXCEPT ![field_index].value = Str(<<options[selected]>>)]
            /\ NextField(value)

\* lines 176-179: any other field is cleared and typed into
FormFieldTyped ==
    /\ AtField
    /\ form_fields[field_index].field_type # "select"
    /\ form_fields[field_index].editable
    /\ \E mapped \in MappedValues, outcome \in FieldOutcomes :
        LET value == get_form_field_value(mapped, outcome)
        IN  /\ Usable(value)
            /\ form_fields' = [form_fields EXCEPT ![field_index].value = value]
            /\ NextField(value)

\* lines 184-186: select_by_index(0) or clear() raised; the loop goes on
FormFieldRaises ==
    /\ AtField
    /\ \E mapped \in MappedValues, outcome \in FieldOutcomes :
        LET value == get_form_field_value(mapped, outcome)
            field == form_fields[field_index]
        IN  /\ Usable(value)
            /\ IF field.field_type = "select"
               THEN SelectedOption(field.options, value) = 0
               ELSE ~field.editable
            /\ NextField(value)
    /\ UNCHANGED form_fields

FieldsDone == f_pc = "fields" /\ field_index > Len(form_fields)

fieldVars == <<form_fields, loaded, field_index, suggested>>

\* lines 188-190: the first for loop is over and the screening questions
\* of the page are looked for
FormQuestionsFound ==
    /\ FieldsDone
    /\ form_fields # << >>
    /\ f_pc' = "questions"
    /\ questions' \in Questions
    /\ q_loaded' = questions'
    /\ q_index' = 1
    /\ answers' = << >>
    /\ UNCHANGED <<fieldVars, f_pages, f_result>>

AtQuestion == f_pc = "questions" /\ q_index <= Len(questions)

NextQuestion(answer) ==
    /\ q_index' = q_index + 1
    /\ answers' = Append(answers, answer)
    /\ UNCHANGED <<f_pc, q_loaded, fieldVars, f_pages, f_result>>

\* line 208 is false: nothing is done to the question
FormQuestionSkipped ==
    /\ AtQuestion
    /\ \E outcome \in AnswerOutcomes :
        LET answer == handle_screening_question(outcome)
        IN  /\ ~Usable(answer)
            /\ NextQuestion(answer)
    /\ UNCHANGED questions

\* lines 214-221: the radio button whose label is the answer is clicked;
\* none is clicked when no label is the answer
FormQuestionRadio ==
    /\ AtQuestion
    /\ questions[q_index].input = "radio"
    /\ \E outcome \in AnswerOutcomes :
        LET answer == handle_screening_question(outcome)
            labels == questions[q_index].labels
            radio == MatchingRadio(labels, answer)
        IN  /\ Usable(answer)
            /\ questions' =
                   IF radio = 0 THEN questions
                   ELSE [questions EXCEPT ![q_index].value = Str(<<labels[radio]>>)]
            /\ NextQuestion(answer)

\* lines 222-224: any other input is cleared and typed into
FormQuestionTyped ==
    /\ AtQuestion
    /\ questions[q_index].input # "radio"
    /\ \E outcome \in AnswerOutcomes :
        LET answer == handle_screening_question(outcome)
        IN  /\ Usable(answer)
            /\ questions' = [questions EXCEPT ![q_index].value = answer]
            /\ NextQuestion(answer)

\* lines 194-195, 210-211, 229-231: the label of the question, or the input
\* of a question that has a usable answer, is not found; the loop goes on
FormQuestionRaises ==
    /\ AtQuestion
    /\ \/ NextQuestion(None)
       \/ \E outcome \in AnswerOutcomes :
            LET answer == handle_screening_question(outcome)
            IN  Usable(answer) /\ NextQuestion(answer)
    /\ UNCHANGED questions

QuestionsDone == f_pc = "questions" /\ q_index > Len(questions)

\* lines 250-263: the success indicators are looked for
FormReturns ==
    /\ f_pc' = "done"
    /\ f_result' \in {"True", "False"}
    /\ UNCHANGED <<fieldVars, f_pages, questionVars>>

\* lines 150-151, 237-238: no field or no button on the page
FormBreak ==
    /\ \/ FieldsDone /\ form_fields = << >>
       \/ QuestionsDone
    /\ FormReturns

\* lines 240-244: an enabled button is clicked and the while loop goes round
FormButtonClicked ==
    /\ QuestionsDone
    /\ f_pages < MaxPages
    /\ f_pages' = f_pages + 1
    /\ f_pc' = "load"
    /\ form_fields' = << >>
    /\ loaded' = << >>
    /\ field_index' = 1
    /\ suggested' = << >>
    /\ questions' = << >>
    /\ q_loaded' = << >>
    /\ q_index' = 1
    /\ answers' = << >>
    /\ UNCHANGED f_result

\* line 147: the fields of the page the click led to
FormFieldsFound ==
    /\ f_pc = "load"
    /\ f_pc' = "fields"
    /\ form_fields' \in FormFields
    /\ loaded' = form_fields'
    /\ UNCHANGED <<field_index, suggested, f_pages, f_result, questionVars>>

(***************************************************************************)
(* linkedin_jobs.py: get_job_listings                                      *)
(***************************************************************************)
MaxJobs == 2
MaxListed == 2
MaxPasses == 3

\* line 627
max_retries == 3

IdleListings ==
    /\ l_pc = "idle"
    /\ max_jobs = 0
    /\ jobs_processed = 0
    /\ retry_count = 0
    /\ l_result = "none"
    /\ l_remaining = 0
    /\ l_passes = 0
    /\ empty_attempts = 0
    /\ l_found = 0
    /\ l_clicked = [c \in 1..MaxListed |-> 0]

\* get_job_listings(max_jobs) has been called
StartListings ==
    /\ l_pc = "while"
    /\ max_jobs \in 0..MaxJobs
    /\ jobs_processed = 0
    /\ retry_count = 0
    /\ l_result = "none"
    /\ l_remaining = 0
    /\ l_passes = 0
    /\ empty_attempts = 0
    /\ l_found = 0
    /\ l_clicked = [c \in 1..MaxListed |-> 0]

\* line 629
WhileCondition ==
    l_pc = "while" /\ jobs_processed < max_jobs /\ retry_count < max_retries

\* an exception that reaches the handler of lines 896-900, which reads
\* self.db_manager itself
ListingsRaise ==
    /\ l_result' = db_manager
    /\ l_pc' = "done"

\* lines 648-653: no job card, and attempts are left
ListNoCardsRetry ==
    /\ WhileCondition
    /\ retry_count < max_retries - 1
    /\ retry_count' = retry_count + 1
    /\ empty_attempts' = empty_attempts + 1
    /\ UNCHANGED <<l_pc, max_jobs, jobs_processed, l_result, l_remaining, l_passes>>
    /\ UNCHANGED <<l_found, l_clicked>>

\* lines 654-658: no job card on the last attempt; line 656 reads
\* self.db_manager before line 658 is reached
ListNoCardsLast ==
    /\ WhileCondition
    /\ retry_count >= max_retries - 1
    /\ empty_attempts' = empty_attempts + 1
    /\ ListingsRaise
    /\ UNCHANGED <<max_jobs, jobs_processed, retry_count, l_remaining, l_passes>>
    /\ UNCHANGED <<l_found, l_clicked>>

\* lines 639-645, 661: job cards are found
ListCardsFound ==
    /\ WhileCondition
    /\ l_passes < MaxPasses
    /\ l_passes' = l_passes + 1
    /\ l_remaining' \in 1..MaxListed
    /\ l_pc' = "cards"
    /\ UNCHANGED <<max_jobs, jobs_processed, retry_count, l_result, empty_attempts>>
    /\ l_found' = l_remaining'
    /\ UNCHANGED l_clicked

AtListing == l_pc = "cards" /\ l_remaining > 0 /\ jobs_processed < max_jobs

\* the place in job_cards of the card the for loop is at; find_elements
\* returns the cards in document order on every pass
AtCardNo == l_found - l_remaining + 1

\* lines 702-704: the card has no title
ListingNoTitle ==
    /\ AtListing
    /\ l_remaining' = l_remaining - 1
    /\ UNCHANGED <<l_pc, max_jobs, jobs_processed, retry_count, l_result, l_passes,
                   empty_attempts>>
    /\ UNCHANGED <<l_found, l_clicked>>

\* lines 782-786 and 872-875: the details did not load, or no Easy Apply
\* button was found; lines 784 and 874 read self.db_manager, and so does
\* the handler at line 881
ListingFails ==
    /\ AtListing
    /\ ListingsRaise
    /\ UNCHANGED <<max_jobs, jobs_processed, retry_count, l_remaining, l_passes,
                   empty_attempts>>
    /\ UNCHANGED <<l_found, l_clicked>>

\* lines 800-877: the Easy Apply button is clicked and the modal opened.  What
\* process_application_steps returns or raises, and the read of
\* self.db_manager at line 858, stay inside the try block of line 801.
ListingStarted ==
    /\ AtListing
    /\ jobs_processed' = jobs_processed + 1
    /\ l_remaining' = l_remaining - 1
    /\ UNCHANGED <<l_pc, max_jobs, retry_count, l_result, l_passes, empty_attempts>>
    /\ l_clicked' = [l_clicked EXCEPT ![AtCardNo] = @ + 1]
    /\ UNCHANGED l_found

\* lines 662-663, 885-891: the for loop is over
ListCardsDone ==
    /\ l_pc = "cards"
    /\ l_remaining = 0 \/ jobs_processed >= max_jobs
    /\ l_pc' = "while"
    /\ l_remaining' = 0
    /\ UNCHANGED <<max_jobs, jobs_processed, retry_count, l_result, l_passes,
                   empty_attempts>>
    /\ UNCHANGED <<l_found, l_clicked>>

\* line 894
ListReturnsTrue ==
    /\ l_pc = "while"
    /\ ~(jobs_processed < max_jobs /\ retry_count < max_retries)
    /\ l_result' = "True"
    /\ l_pc' = "done"
    /\ UNCHANGED <<max_jobs, jobs_processed, retry_count, l_remaining, l_passes,
                   empty_attempts>>
    /\ UNCHANGED <<l_found, l_clicked>>

(***************************************************************************)
(* linkedin_auto_apply.py: the three writes of the store called by         *)
(* themselves: save_job_details, log_application_attempt, save_form_field  *)
(***************************************************************************)
MaxWrites == 3

\* what cursor.execute or conn.commit can do
SqliteOutcomes == {"none", "sqlite3.Error"}

StoreWriteMutant(enabled, inner) ==
    IF ~enabled THEN [written |-> FALSE, raised |-> "none"]
    ELSE IF inner # "none" THEN [written |-> FALSE, raised |-> inner]
    ELSE [written |-> TRUE, raised |-> "none"]

\* The shape the three writes share (lines 355-357 and 359-412, 416-418 and
\* 420-433, 437-439 and 441-450): return at once when db_enabled is unset
\* or False; otherwise a try block around the statement and the commit,
\* whose except clause logs the exception and falls off the end.  `inner` is
\* what the try block raises, "none" if nothing.
StoreWrite(enabled, inner) ==
    IF ~enabled THEN [written |-> FALSE, raised |-> "none"]
    ELSE IF inner # "none" THEN [written |-> FALSE, raised |-> "none"]
    ELSE [written |-> TRUE, raised |-> "none"]

\* what the try block raises when its parameter tuple calls datetime.now()
\* (lines 401 and 426), given what sqlite does
WithTimestamp(sqlite) ==
    IF datetime_now = "AttributeError" THEN "AttributeError" ELSE sqlite

IdleWrites ==
    /\ w_last = "none"
    /\ w_inner = "none"
    /\ w_raised = "none"
    /\ w_count = 0
    /\ form_field_rows = 0
    /\ attempt_rows = 0

\* a write called by itself
WriteCalled(op, inner) ==
    /\ w_count < MaxWrites
    /\ w_count' = w_count + 1
    /\ w_last' = op
    /\ w_inner' = inner
    /\ w_raised' = StoreWrite(db_enabled, inner).raised

\* save_job_details
WriteJobDetails ==
    /\ \E sqlite \in SqliteOutcomes, id \in JobIds, status \in Statuses :
        /\ WriteCalled("save_job_details", WithTimestamp(sqlite))
        /\ jobs' = IF StoreWrite(db_enabled, WithTimestamp(sqlite)).written
                   THEN save_job_details(id, status, "None")
                   ELSE jobs
        /\ save_calls' = SaveCalled(save_calls, id, status, "None")
    /\ UNCHANGED <<db_enabled, form_field_rows, attempt_rows>>

\* log_application_attempt
LogApplicationAttempt ==
    /\ \E sqlite \in SqliteOutcomes :
        /\ WriteCalled("log_application_attempt", WithTimestamp(sqlite))
        /\ attempt_rows' =
               IF StoreWrite(db_enabled, WithTimestamp(sqlite)).written
               THEN attempt_rows + 1 ELSE attempt_rows
    /\ UNCHANGED <<storeVars, form_field_rows>>

\* save_form_field
SaveFormField ==
    /\ \E sqlite \in SqliteOutcomes :
        /\ WriteCalled("save_form_field", sqlite)
        /\ form_field_rows' =
               IF StoreWrite(db_enabled, sqlite).written
               THEN form_field_rows + 1 ELSE form_field_rows
    /\ UNCHANGED <<storeVars, attempt_rows>>

(***************************************************************************)
(* linkedin_auto_apply.py: main and run                                    *)
(***************************************************************************)
MaxRunPasses == 6
MaxJobsSetting == 3

\* line 968 calls self.jobs_handler.search_jobs(keywords, location);
\* LinkedInJobs.search_jobs(self) takes no parameter, so the call raises
search_jobs_call == "TypeError"

\* what login_handler.login() can do
LoginOutcomes == {"True", "False", "raises"}

\* the settings read from .env.local: LINKEDIN_EMAIL and LINKEDIN_PASSWORD
\* (lines 42-49), JOB_SEARCH_KEYWORDS and JOB_SEARCH_LOCATION
\* (LinkedInJobs.__init__, which raises ValueError without them)
Configs == [email : BOOLEAN, password : BOOLEAN, keywords : BOOLEAN, location : BOOLEAN]

NoConfig == [email |-> FALSE, password |-> FALSE, keywords |-> FALSE, location |-> FALSE]

Configured == config.email /\ config.password /\ config.keywords /\ config.location

IdleRun ==
    /\ r_pc = "idle"
    /\ config = NoConfig
    /\ r_max_jobs = 0
    /\ login_result = "none"
    /\ r_searches = 0
    /\ r_listings = 0
    /\ r_applications = 0
    /\ r_passes = 0
    /\ exit_status = "none"

\* main has been called
StartRun ==
    /\ r_pc = "main"
    /\ config \in Configs
    /\ r_max_jobs \in 1..MaxJobsSetting
    /\ login_result = "none"
    /\ r_searches = 0
    /\ r_listings = 0
    /\ r_applications = 0
    /\ r_passes = 0
    /\ exit_status = "none"

runFrame == UNCHANGED <<config, r_max_jobs>>

\* lines 37-58, 1035-1041: __init__ raises (a setting is missing, or the
\* driver cannot be set up); main logs the exception and returns
MainInitFails ==
    /\ r_pc = "main"
    /\ r_pc' = "returned"
    /\ UNCHANGED <<login_result, r_searches, r_listings, r_applications, r_passes,
                   exit_status>>
    /\ runFrame

\* lines 37-58, 1036-1037: the bot is built and run is called
MainInit ==
    /\ r_pc = "main"
    /\ Configured
    /\ r_pc' = "login"
    /\ UNCHANGED <<login_result, r_searches, r_listings, r_applications, r_passes,
                   exit_status>>
    /\ runFrame

\* lines 957-959, 1029-1032: login returns False, or raises and the outer
\* except clause logs it; run returns
RunLoginFails ==
    /\ r_pc = "login"
    /\ login_result' \in {"False", "raises"}
    /\ r_pc' = "returned"
    /\ UNCHANGED <<r_searches, r_listings, r_applications, r_passes, exit_status>>
    /\ runFrame

\* lines 957-964
RunLoginOk ==
    /\ r_pc = "login"
    /\ login_result' = "True"
    /\ r_pc' = "loop"
    /\ UNCHANGED <<r_searches, r_listings, r_applications, r_passes, exit_status>>
    /\ runFrame

\* a history counter of run, counted up to MaxRunPasses
Counted(n) == IF n < MaxRunPasses THEN n + 1 ELSE n

\* lines 964-968, 1019-1020: a pass of `while True`; the call of search_jobs
\* raises and the except clause of the loop logs it
RunSearchRaises ==
    /\ r_pc = "loop"
    /\ search_jobs_call = "TypeError"
    /\ r_pc' = "except"
    /\ r_searches' = Counted(r_searches)
    /\ r_passes' = Counted(r_passes)
    /\ UNCHANGED <<login_result, r_listings, r_applications, exit_status>>
    /\ runFrame

\* lines 1021-1027: the except clause goes back to the jobs page and
\* continues with the next pass of `while True`
RunRetries ==
    /\ r_pc = "except"
    /\ r_pc' = "loop"
    /\ UNCHANGED <<login_result, r_searches, r_listings, r_applications, r_passes,
                   exit_status>>
    /\ runFrame

\* lines 1043-1044: main has returned and the interpreter exits; nothing
\* calls sys.exit, so the status is 0
ProcessExits ==
    /\ r_pc = "returned"
    /\ r_pc' = "exited"
    /\ exit_status' = 0
    /\ UNCHANGED <<login_result, r_searches, r_listings, r_applications, r_passes>>
    /\ runFrame

(***************************************************************************)
(* linkedin_apply.py: apply_to_job and handle_easy_apply_process, with     *)
(* ai_assistant.py: extract_job_details                                    *)
(***************************************************************************)
MaxExtractLen == 4
MaxPosting == 2

ExtractAlphabet == {"d", " ", "|"}

RECURSIVE ExtractStringsUpTo(_)
ExtractStringsUpTo(n) ==
    IF n = 0 THEN {<< >>}
    ELSE LET shorter == ExtractStringsUpTo(n - 1)
         IN  shorter \cup {Append(s, c) : s \in {t \in shorter : Len(t) = n - 1},
                                            c \in ExtractAlphabet}

\* what _make_api_request can yield for the extraction prompt
ExtractOutcomes ==
    {[kind |-> "error", content |-> << >>]}
        \cup {[kind |-> "ok", content |-> s] : s \in ExtractStringsUpTo(MaxExtractLen)}

\* what _make_api_request can yield for the prompt of analyze_job
AnalysisOutcomes ==
    {[kind |-> "error", content |-> << >>],
     [kind |-> "ok", content |-> <<"Y", "e", "s", "|", "|", "|">>],
     [kind |-> "ok", content |-> <<"s", "|", "|", "|">>],
     [kind |-> "ok", content |-> <<"Y", "e", "s">>]}

NoDetails == [description |-> None, requirements |-> None]

extract_job_details_mutant(key, outcome) ==
    IF ~key THEN NoDetails
    ELSE LET result == make_api_request(outcome)
         IN  IF Falsy(result) THEN NoDetails
             ELSE LET parts == Split(result.v, "|")
                  IN  IF Len(parts) < 2 THEN NoDetails
                      ELSE [description |-> Str(Strip(parts[1])),
                            requirements |-> Str(Strip(parts[2]))]

\* extract_job_details: (None, None) without a key, for a failed request
\* and when the unpacking of result.split('|') into two names raises
extract_job_details(key, outcome) ==
    IF ~key THEN NoDetails
    ELSE LET result == make_api_request(outcome)
         IN  IF Falsy(result) THEN NoDetails
             ELSE LET parts == Split(result.v, "|")
                  IN  IF Len(parts) # 2 THEN NoDetails
                      ELSE [description |-> Str(Strip(parts[1])),
                            requirements |-> Str(Strip(parts[2]))]

\* LinkedInApply defines no wait_for_loading_modal: the call at line 340
\* raises
apply_wait_for_loading_modal == "AttributeError"

\* a step of the Easy Apply modal: the controls it shows
Pages == [submit : BOOLEAN, next : BOOLEAN]

RECURSIVE PostingsUpTo(_)
PostingsUpTo(n) ==
    IF n = 0 THEN {<< >>}
    ELSE LET shorter == PostingsUpTo(n - 1)
         IN  shorter \cup {Append(p, g) : p \in {q \in shorter : Len(q) = n - 1},
                                            g \in Pages}

Postings == PostingsUpTo(MaxPosting) \ {<< >>}

NoResponse == [kind |-> "none", content |-> << >>]

IdleJob ==
    /\ j_pc = "idle"
    /\ j_key = FALSE
    /\ posting = << >>
    /\ j_response = NoResponse
    /\ details = NoDetails
    /\ j_analysed = FALSE
    /\ j_searched = FALSE
    /\ j_step = 0
    /\ j_clicked = << >>
    /\ j_result = "none"

\* apply_to_job(job_data) has been called on a job whose modal has the
\* steps of posting
StartJob ==
    /\ j_pc = "start"
    /\ j_key \in BOOLEAN
    /\ posting \in Postings
    /\ j_response = NoResponse
    /\ details = NoDetails
    /\ j_analysed = FALSE
    /\ j_searched = FALSE
    /\ j_step = 0
    /\ j_clicked = << >>
    /\ j_result = "none"

jobFrame == UNCHANGED <<j_key, posting>>

\* lines 31-37, 57-58: the description is not found; the except clause
\* logs a warning and the search for the button begins
JobNoDescription ==
    /\ j_pc = "start"
    /\ j_pc' = "button"
    /\ UNCHANGED <<j_response, details, j_analysed, j_searched, j_step, j_clicked,
                   j_result>>
    /\ jobFrame

\* lines 40-42: extract_job_details is called; without a key it asks the
\* gateway nothing
JobExtractDetails ==
    /\ j_pc = "start"
    /\ \E outcome \in ExtractOutcomes :
        /\ j_response' = IF j_key THEN outcome ELSE NoResponse
        /\ details' = extract_job_details(j_key, outcome)
    /\ j_pc' = IF ~Falsy(details'.description) /\ ~Falsy(details'.requirements)
               THEN "analyse" ELSE "button"
    /\ UNCHANGED <<j_analysed, j_searched, j_step, j_clicked, j_result>>
    /\ jobFrame

\* lines 44-58: analyze_job is called; apply_to_job returns False when it
\* advises against applying
JobAnalyse ==
    /\ j_pc = "analyse"
    /\ j_analysed' = TRUE
    /\ \E outcome \in AnalysisOutcomes :
        IF analyze_job(j_key, outcome).should_apply
        THEN j_pc' = "button" /\ UNCHANGED j_result
        ELSE j_pc' = "done" /\ j_result' = "False"
    /\ UNCHANGED <<j_response, details, j_searched, j_step, j_clicked>>
    /\ jobFrame

\* lines 75-125: no selector yields a displayed, enabled button whose click
\* opens the modal; apply_to_job returns False
JobNoEasyApply ==
    /\ j_pc = "button"
    /\ j_searched' = TRUE
    /\ j_pc' = "done"
    /\ j_result' = "False"
    /\ UNCHANGED <<j_response, details, j_analysed, j_step, j_clicked>>
    /\ jobFrame

\* lines 75-116: the button is clicked, the modal appears and
\* handle_easy_apply_process is called
JobEasyApply ==
    /\ j_pc = "button"
    /\ j_searched' = TRUE
    /\ j_pc' = "walk"
    /\ j_step' = 1
    /\ j_clicked' = Append(j_clicked, "Easy Apply")
    /\ UNCHANGED <<j_response, details, j_analysed, j_result>>
    /\ jobFrame

\* handle_easy_apply_process returns False: line 119 leaves the for loop and
\* line 125 returns False
EasyApplyFails ==
    /\ j_pc' = "done"
    /\ j_result' = "False"
    /\ UNCHANGED <<j_response, details, j_analysed, j_searched, j_clicked>>
    /\ jobFrame

\* lines 334-335, 409-411: the modal is gone and the wait for it times out
EasyApplyNoModal ==
    /\ j_pc = "walk"
    /\ j_step' = 0
    /\ EasyApplyFails

\* lines 338-340, 409-411: the modal shows its first step and the first
\* statement of the loop raises; no control of the step is looked for
EasyApplyLoadingRaises ==
    /\ j_pc = "walk"
    /\ apply_wait_for_loading_modal = "AttributeError"
    /\ UNCHANGED j_step
    /\ EasyApplyFails

(***************************************************************************)
(* linkedin_captcha.py, linkedin_auto_apply.py, linkedin_login.py:         *)
(* check_for_security_verification.  The method of LinkedInAutoApply       *)
(* (lines 746-843, 845-886) is the one of LinkedInCaptcha line for line;   *)
(* line numbers below are those of linkedin_captcha.py unless they name    *)
(* linkedin_login.py.                                                      *)
(***************************************************************************)
MaxIframes == 2

\* wait_for_verification_completion(self, timeout=300)
timeout == 300

\* time.sleep(5) at the end of a pass of its while loop
poll_sleep == 5

Handlers == {"LinkedInCaptcha", "LinkedInAutoApply", "LinkedInLogin"}

IdleCheck ==
    /\ v_pc = "idle"
    /\ v_handler = "none"
    /\ v_context = "top"
    /\ v_iframes = 0
    /\ v_wait = "none"
    /\ v_elapsed = 0
    /\ v_auto = "none"
    /\ v_manual = FALSE
    /\ v_result = "none"

\* check_for_security_verification of one of the three classes has been
\* called, the browser showing the top-level document
StartCheck ==
    /\ v_pc = "start"
    /\ v_handler \in Handlers
    /\ v_context = "top"
    /\ v_iframes = 0
    /\ v_wait = "none"
    /\ v_elapsed = 0
    /\ v_auto = "none"
    /\ v_manual = FALSE
    /\ v_result = "none"

checkFrame == UNCHANGED v_handler

TwoVariants == v_handler \in {"LinkedInCaptcha", "LinkedInAutoApply"}

\* line 23 raises (no iframe within 10 s); lines 110-116: the except
\* clause switches to the default content and returns False
CheckNoIframe ==
    /\ v_pc = "start"
    /\ TwoVariants
    /\ v_pc' = "returned"
    /\ v_result' = "False"
    /\ v_context' = "top"
    /\ UNCHANGED <<v_iframes, v_wait, v_elapsed, v_auto, v_manual>>
    /\ checkFrame

\* lines 23-29: iframes are present
CheckIframesFound ==
    /\ v_pc = "start"
    /\ TwoVariants
    /\ \E n \in 1..MaxIframes : v_iframes' = n
    /\ v_pc' = "loop"
    /\ UNCHANGED <<v_context, v_wait, v_elapsed, v_auto, v_manual, v_result>>
    /\ checkFrame

\* lines 29-44, 98-106: switch_to.frame raises, or the frame holds none of
\* the verification texts; `continue`, and the finally clause switches back
CheckIframeSkipped ==
    /\ v_pc = "loop"
    /\ v_iframes > 0
    /\ v_iframes' = v_iframes - 1
    /\ v_context' = "top"
    /\ UNCHANGED <<v_pc, v_wait, v_elapsed, v_auto, v_manual, v_result>>
    /\ checkFrame

\* lines 29-46: the frame is switched to and holds a verification text
CheckVerificationFrame ==
    /\ v_pc = "loop"
    /\ v_iframes > 0
    /\ v_context' = "iframe"
    /\ v_pc' = "frame"
    /\ UNCHANGED <<v_iframes, v_wait, v_elapsed, v_auto, v_manual, v_result>>
    /\ checkFrame

\* line 95: wait_for_verification_completion() is called for the manual
\* completion, in the frame context the handler is in
ManualWait(context) ==
    /\ v_pc' = "waiting"
    /\ v_wait' = "manual"
    /\ v_elapsed' = 0
    /\ v_manual' = TRUE
    /\ v_context' = context

\* lines 55-68, 93-95: no Verify button
CheckNoButton ==
    /\ v_pc = "frame"
    /\ ManualWait(v_context)
    /\ UNCHANGED <<v_iframes, v_auto, v_result>>
    /\ checkFrame

\* lines 72-76, 118-133, 180-182: a puzzle; solve_orientation_captcha
\* returns False before it clicks Verify (no instruction text, or a driver
\* call of it raises); lines 93-95
CheckPuzzleUnsolved ==
    /\ v_pc = "frame"
    /\ v_auto' = "failed"
    /\ ManualWait(v_context)
    /\ UNCHANGED <<v_iframes, v_result>>
    /\ checkFrame

\* lines 72-76, 118-175: a puzzle; solve_orientation_captcha clicks the
\* images and Verify, switches to the default content and waits
CheckPuzzleSubmitted ==
    /\ v_pc = "frame"
    /\ v_pc' = "waiting"
    /\ v_wait' = "solve"
    /\ v_elapsed' = 0
    /\ v_context' = "top"
    /\ UNCHANGED <<v_iframes, v_auto, v_manual, v_result>>
    /\ checkFrame

\* lines 79-87: a simple verification; Verify is clicked, the default
\* content is switched to and the handler waits
CheckSimpleClick ==
    /\ v_pc = "frame"
    /\ v_pc' = "waiting"
    /\ v_wait' = "click"
    /\ v_elapsed' = 0
    /\ v_context' = "top"
    /\ UNCHANGED <<v_iframes, v_auto, v_manual, v_result>>
    /\ checkFrame

\* lines 72, 82, 98-106: find_elements or the click on Verify raises;
\* `continue`, and the finally clause switches back
CheckFrameRaises ==
    /\ v_pc = "frame"
    /\ v_pc' = "loop"
    /\ v_iframes' = v_iframes - 1
    /\ v_context' = "top"
    /\ v_auto' = "raised"
    /\ UNCHANGED <<v_wait, v_elapsed, v_manual, v_result>>
    /\ checkFrame

\* lines 229-264: a pass of the while loop of
\* wait_for_verification_completion that finds the verification still
\* there (or whose lookups raise), and sleeps
WaitPolls ==
    /\ v_pc = "waiting"
    /\ v_elapsed < timeout
    /\ v_elapsed' = v_elapsed + poll_sleep
    /\ UNCHANGED <<v_pc, v_context, v_iframes, v_wait, v_auto, v_manual, v_result>>
    /\ checkFrame

\* what the handler returns when the wait named by wait has returned True:
\* lines 176 and 76-78, lines 87-88, lines 95-96
AfterCompleted(wait) == IF wait = "manual" THEN "True" ELSE "False"

\* lines 229-257: a pass that finds a normal page, or no verification
\* element; the wait returns True and the handler returns, its finally
\* clause (102-106) switching to the default content
WaitCompleted ==
    /\ v_pc = "waiting"
    /\ v_elapsed < timeout
    /\ v_pc' = "returned"
    /\ v_result' = AfterCompleted(v_wait)
    /\ v_context' = "top"
    /\ UNCHANGED <<v_iframes, v_wait, v_elapsed, v_auto, v_manual>>
    /\ checkFrame

\* lines 229, 266-267: the timeout is reached and the wait returns False.
\* After the manual wait the handler returns True (96, 102-106).  After
\* the solver's wait the solver returns False (178) and the handler goes on
\* to the manual wait (93-95), in the default content the solver left it
\* in.  After the wait that follows the click the handler switches back to
\* the frame (91) and goes on to the manual wait.
WaitTimesOut ==
    /\ v_pc = "waiting"
    /\ v_elapsed >= timeout
    /\ IF v_wait = "manual"
         THEN /\ v_pc' = "returned"
              /\ v_result' = "True"
              /\ v_context' = "top"
              /\ UNCHANGED <<v_wait, v_elapsed, v_auto, v_manual>>
         ELSE /\ v_auto' = "failed"
              /\ ManualWait(IF v_wait = "click" THEN "iframe" ELSE "top")
              /\ UNCHANGED v_result
    /\ UNCHANGED v_iframes
    /\ checkFrame

\* lines 87-91, 98-106: the wait that follows the click has returned False
\* and switch_to.frame(iframe) raises, the frame being no longer the one
\* that was found; `continue`, and the finally clause switches back
CheckSwitchBackRaises ==
    /\ v_pc = "waiting"
    /\ v_wait = "click"
    /\ v_elapsed >= timeout
    /\ v_auto' = "failed"
    /\ v_pc' = "loop"
    /\ v_iframes' = v_iframes - 1
    /\ v_context' = "top"
    /\ UNCHANGED <<v_wait, v_elapsed, v_manual, v_result>>
    /\ checkFrame

\* line 108: the for loop is over
CheckLoopEnds ==
    /\ v_pc = "loop"
    /\ v_iframes = 0
    /\ v_pc' = "returned"
    /\ v_result' = "False"
    /\ UNCHANGED <<v_context, v_iframes, v_wait, v_elapsed, v_auto, v_manual>>
    /\ checkFrame

\* linkedin_login.py lines 43-69: a verification element is found, in the
\* verification iframe that was switched to (line 49) or, none being found,
\* in the main content; `return True`
LoginCheckFound ==
    /\ v_pc = "start"
    /\ v_handler = "LinkedInLogin"
    /\ \E iframe_found \in BOOLEAN :
          v_context' = IF iframe_found THEN "iframe" ELSE "top"
    /\ v_pc' = "returned"
    /\ v_result' = "True"
    /\ UNCHANGED <<v_iframes, v_wait, v_elapsed, v_auto, v_manual>>
    /\ checkFrame

\* linkedin_login.py lines 43-66, 73-89: no verification element is found,
\* or a lookup raises; the default content is switched to
LoginCheckNotFound ==
    /\ v_pc = "start"
    /\ v_handler = "LinkedInLogin"
    /\ v_context' = "top"
    /\ v_pc' = "returned"
    /\ v_result' = "False"
    /\ UNCHANGED <<v_iframes, v_wait, v_elapsed, v_auto, v_manual>>
    /\ checkFrame

(***************************************************************************)
(* linkedin_login.py: login, attempt_login and wait_for_security_check.    *)
(* wait_for_security_check calls login() again when the site shows the     *)
(* rate-limit page; g_stack holds the calls of attempt_login that wait for *)
(* such a call to return, the innermost first.                             *)
(***************************************************************************)
MaxDepth == 2

\* def attempt_login(self, max_attempts=3), called by login() without an
\* argument
max_attempts == 3

\* max_attempts = 3 of wait_for_security_check
check_max_attempts == 3

IdleLogin ==
    /\ g_pc = "idle"
    /\ g_attempt = 0
    /\ g_check = 0
    /\ g_stack = << >>
    /\ g_submits = 0
    /\ g_result = "none"

\* lines 304-308, 246-248: login() has called attempt_login()
StartLogin ==
    /\ g_pc = "loop"
    /\ g_attempt = 0
    /\ g_check = 0
    /\ g_stack = << >>
    /\ g_submits = 0
    /\ g_result = "none"

\* attempt_login returns value, its attempt being attempt.  login returns
\* the same (line 308).  When the call of login was the one of line 209,
\* wait_for_security_check returns the value too, to the attempt_login that
\* waits: True makes it return True (286-288), False makes it retry
\* (290-291) with the attempt it had.
LoginReturns(value, attempt) ==
    IF g_stack = << >> \/ value = "True"
      THEN /\ g_pc' = "returned"
           /\ g_result' = value
           /\ g_stack' = << >>
           /\ g_attempt' = attempt
      ELSE /\ g_pc' = "loop"
           /\ g_attempt' = Head(g_stack)
           /\ g_stack' = Tail(g_stack)
           /\ UNCHANGED g_result

\* lines 249-283, 293-297: a driver call raises before the click on the
\* login button (the username field does not appear within 10 s)
AttemptRaises ==
    /\ g_pc = "loop"
    /\ g_attempt < max_attempts
    /\ IF g_attempt + 1 = max_attempts
         THEN LoginReturns("False", g_attempt + 1)
         ELSE /\ g_attempt' = g_attempt + 1
              /\ UNCHANGED <<g_pc, g_stack, g_result>>
    /\ UNCHANGED <<g_check, g_submits>>

\* lines 249-275: LINKEDIN_EMAIL or LINKEDIN_PASSWORD is not set (and so
\* was not at any earlier attempt)
AttemptNoCredentials ==
    /\ g_pc = "loop"
    /\ g_attempt < max_attempts
    /\ g_submits = 0
    /\ LoginReturns("False", g_attempt + 1)
    /\ UNCHANGED <<g_check, g_submits>>

\* lines 249-286, 189-196: the credentials are typed, the login button is
\* clicked and wait_for_security_check is called
AttemptSubmits ==
    /\ g_pc = "loop"
    /\ g_attempt < max_attempts
    /\ g_attempt' = g_attempt + 1
    /\ g_submits' = g_submits + 1
    /\ g_check' = 0
    /\ g_pc' = "check"
    /\ UNCHANGED <<g_stack, g_result>>

\* lines 249, 302: the while loop is over
AttemptLoopEnds ==
    /\ g_pc = "loop"
    /\ g_attempt >= max_attempts
    /\ LoginReturns("False", g_attempt)
    /\ UNCHANGED <<g_check, g_submits>>

\* lines 196-209, 304-308, 246-248: the rate-limit page; after 60 s the
\* login page is loaded and login() is called
SecurityRateLimited ==
    /\ g_pc = "check"
    /\ g_check < check_max_attempts
    /\ Len(g_stack) < MaxDepth
    /\ g_stack' = <<g_attempt>> \o g_stack
    /\ g_attempt' = 0
    /\ g_check' = g_check + 1
    /\ g_pc' = "loop"
    /\ UNCHANGED <<g_submits, g_result>>

\* lines 196-219, 227-230, 286-288: the feed or the jobs page is shown
SecurityResolved ==
    /\ g_pc = "check"
    /\ g_check < check_max_attempts
    /\ g_check' = g_check + 1
    /\ LoginReturns("True", g_attempt)
    /\ UNCHANGED g_submits

\* lines 196-242: the verification page stays for the 60 s of the inner
\* loop, or the page is an unknown one, or current_url raises at an attempt
\* that is not the last
SecurityWaits ==
    /\ g_pc = "check"
    /\ g_check < check_max_attempts
    /\ g_check' = g_check + 1
    /\ UNCHANGED <<g_pc, g_attempt, g_stack, g_submits, g_result>>

\* lines 196, 244, 290-291: the while loop is over, False is returned and
\* attempt_login goes on to its next attempt
SecurityGivesUp ==
    /\ g_pc = "check"
    /\ g_check >= check_max_attempts
    /\ g_pc' = "loop"
    /\ UNCHANGED <<g_attempt, g_check, g_stack, g_submits, g_result>>

\* the two parts added last are not running
IdleLast == IdleCheck /\ IdleLogin

\* the parts added after the first six are not running
IdleMore == IdleWrites /\ IdleRun /\ IdleJob /\ IdleLast

(***************************************************************************)
(* Specifications                                                          *)
(***************************************************************************)
InitAI == StartAI /\ IdleStore /\ IdleDm /\ IdleApply /\ IdleSteps
    /\ IdleForm /\ IdleListings /\ IdleMore

NextAI == AnalyzeJob /\ UNCHANGED <<storeVars, dmVars, applyVars, stepsVars, formVars, listVars, moreVars>>

SpecAI == InitAI /\ [][NextAI]_vars

InitStore == IdleAI /\ StartStore /\ IdleDm /\ IdleApply /\ IdleSteps
    /\ IdleForm /\ IdleListings /\ IdleMore

NextStore ==
    \/ SaveJobDetails /\ UNCHANGED <<aiVars, dmVars, applyVars, stepsVars, formVars, listVars, moreVars>>
    \/ AddJob /\ UNCHANGED <<aiVars, storeVars, applyVars, stepsVars, formVars, listVars, moreVars>>

SpecStore == InitStore /\ [][NextStore]_vars

InitApply == IdleAI /\ StartStore /\ IdleDm /\ StartApply /\ IdleSteps
    /\ IdleForm /\ IdleListings /\ IdleMore

ApplyOnly == UNCHANGED <<aiVars, dmVars, stepsVars, formVars, listVars, moreVars>>

NextApply ==
    \/ ApplyToJobs /\ ApplyOnly
    \/ SecurityCheckHandled /\ ApplyOnly
    \/ CardClickRaises /\ ApplyOnly
    \/ CardNoDetails /\ ApplyOnly
    \/ CardNoEasyApply /\ ApplyOnly
    \/ CardRaises /\ ApplyOnly
    \/ CardEasyApply /\ ApplyOnly
    \/ WalkStartFails /\ ApplyOnly
    \/ WalkStart /\ ApplyOnly
    \/ WalkSent /\ ApplyOnly
    \/ WalkSubmitSent /\ ApplyOnly
    \/ WalkSubmitNotSent /\ ApplyOnly
    \/ WalkNext /\ ApplyOnly
    \/ WalkNoButton /\ ApplyOnly
    \/ WalkRaises /\ ApplyOnly
    \/ AfterWalk /\ ApplyOnly
    \/ ApplyToJobsReturns /\ ApplyOnly

SpecApply == InitApply /\ [][NextApply]_vars


InitSteps == IdleAI /\ IdleStore /\ IdleDm /\ IdleApply /\ StartSteps
    /\ IdleForm /\ IdleListings /\ IdleMore

StepsOnly ==
    UNCHANGED <<aiVars, storeVars, dmVars, applyVars, formVars, listVars, moreVars>>

NextSteps ==
    \/ StepSubmit /\ StepsOnly
    \/ StepNext /\ StepsOnly
    \/ StepNoButton /\ StepsOnly
    \/ StepFillFails /\ StepsOnly
    \/ StepsExhausted /\ StepsOnly

SpecSteps == InitSteps /\ [][NextSteps]_vars

InitForm == IdleAI /\ IdleStore /\ IdleDm /\ IdleApply /\ IdleSteps
    /\ StartForm /\ IdleListings /\ IdleMore

FormOnly ==
    UNCHANGED <<aiVars, storeVars, dmVars, applyVars, stepsVars, listVars, moreVars>>

NextForm ==
    \/ FormFieldSkipped /\ FormOnly
    \/ FormFieldSelected /\ FormOnly
    \/ FormFieldTyped /\ FormOnly
    \/ FormFieldRaises /\ FormOnly
    \/ FormQuestionsFound /\ FormOnly
    \/ FormQuestionSkipped /\ FormOnly
    \/ FormQuestionRadio /\ FormOnly
    \/ FormQuestionTyped /\ FormOnly
    \/ FormQuestionRaises /\ FormOnly
    \/ FormBreak /\ FormOnly
    \/ FormButtonClicked /\ FormOnly
    \/ FormFieldsFound /\ FormOnly

SpecForm == InitForm /\ [][NextForm]_vars

InitListings == IdleAI /\ IdleStore /\ IdleDm /\ IdleApply /\ IdleSteps
    /\ IdleForm /\ StartListings /\ IdleMore

ListingsOnly ==
    UNCHANGED <<aiVars, storeVars, dmVars, applyVars, stepsVars, formVars, moreVars>>

NextListings ==
    \/ ListNoCardsRetry /\ ListingsOnly
    \/ ListNoCardsLast /\ ListingsOnly
    \/ ListCardsFound /\ ListingsOnly
    \/ ListingNoTitle /\ ListingsOnly
    \/ ListingFails /\ ListingsOnly
    \/ ListingStarted /\ ListingsOnly
    \/ ListCardsDone /\ ListingsOnly
    \/ ListReturnsTrue /\ ListingsOnly

SpecListings == InitListings /\ [][NextListings]_vars

InitWrites == IdleAI /\ StartStore /\ IdleDm /\ IdleApply /\ IdleSteps
    /\ IdleForm /\ IdleListings /\ IdleWrites /\ IdleRun /\ IdleJob /\ IdleLast

WritesOnly ==
    UNCHANGED <<aiVars, dmVars, applyVars, stepsVars, formVars, listVars, runVars,
                jobVars, lastVars>>

NextWrites ==
    \/ WriteJobDetails /\ WritesOnly
    \/ LogApplicationAttempt /\ WritesOnly
    \/ SaveFormField /\ WritesOnly

SpecWrites == InitWrites /\ [][NextWrites]_vars

\* the first six parts are not running
IdleFirst == IdleAI /\ IdleStore /\ IdleDm /\ IdleApply /\ IdleSteps
    /\ IdleForm /\ IdleListings

firstVars == <<aiVars, storeVars, dmVars, applyVars, stepsVars, formVars, listVars>>

InitRun == IdleFirst /\ IdleWrites /\ StartRun /\ IdleJob /\ IdleLast

RunOnly == UNCHANGED <<firstVars, writeVars, jobVars, lastVars>>

NextRun ==
    \/ MainInitFails /\ RunOnly
    \/ MainInit /\ RunOnly
    \/ RunLoginFails /\ RunOnly
    \/ RunLoginOk /\ RunOnly
    \/ RunSearchRaises /\ RunOnly
    \/ RunRetries /\ RunOnly
    \/ ProcessExits /\ RunOnly

SpecRun == InitRun /\ [][NextRun]_vars

\* the interpreter goes on executing main for as long as it has a next
\* statement
FairRun == SpecRun /\ WF_vars(NextRun)

InitJob == IdleFirst /\ IdleWrites /\ IdleRun /\ StartJob /\ IdleLast

JobOnly == UNCHANGED <<firstVars, writeVars, runVars, lastVars>>

NextJob ==
    \/ JobNoDescription /\ JobOnly
    \/ JobExtractDetails /\ JobOnly
    \/ JobAnalyse /\ JobOnly
    \/ JobNoEasyApply /\ JobOnly
    \/ JobEasyApply /\ JobOnly
    \/ EasyApplyNoModal /\ JobOnly
    \/ EasyApplyLoadingRaises /\ JobOnly

SpecJob == InitJob /\ [][NextJob]_vars

InitCheck == IdleFirst /\ IdleWrites /\ IdleRun /\ IdleJob /\ StartCheck
    /\ IdleLogin

CheckOnly == UNCHANGED <<firstVars, writeVars, runVars, jobVars, loginVars>>

NextCheck ==
    \/ CheckNoIframe /\ CheckOnly
    \/ CheckIframesFound /\ CheckOnly
    \/ CheckIframeSkipped /\ CheckOnly
    \/ CheckVerificationFrame /\ CheckOnly
    \/ CheckNoButton /\ CheckOnly
    \/ CheckPuzzleUnsolved /\ CheckOnly
    \/ CheckPuzzleSubmitted /\ CheckOnly
    \/ CheckSimpleClick /\ CheckOnly
    \/ CheckFrameRaises /\ CheckOnly
    \/ WaitPolls /\ CheckOnly
    \/ WaitCompleted /\ CheckOnly
    \/ WaitTimesOut /\ CheckOnly
    \/ CheckSwitchBackRaises /\ CheckOnly
    \/ CheckLoopEnds /\ CheckOnly
    \/ LoginCheckFound /\ CheckOnly
    \/ LoginCheckNotFound /\ CheckOnly

SpecCheck == InitCheck /\ [][NextCheck]_vars

InitLogin == IdleFirst /\ IdleWrites /\ IdleRun /\ IdleJob /\ IdleCheck
    /\ StartLogin

LoginOnly == UNCHANGED <<firstVars, writeVars, runVars, jobVars, checkVars>>

NextLogin ==
    \/ AttemptRaises /\ LoginOnly
    \/ AttemptNoCredentials /\ LoginOnly
    \/ AttemptSubmits /\ LoginOnly
    \/ AttemptLoopEnds /\ LoginOnly
    \/ SecurityRateLimited /\ LoginOnly
    \/ SecurityResolved /\ LoginOnly
    \/ SecurityWaits /\ LoginOnly
    \/ SecurityGivesUp /\ LoginOnly

SpecLogin == InitLogin /\ [][NextLogin]_vars

RECURSIVE SavesOf(_, _)
SavesOf(calls, id) ==
    IF calls = << >> THEN << >>
    ELSE IF Head(calls).job_id = id
         THEN <<Head(calls).status>> \o SavesOf(Tail(calls), id)
         ELSE SavesOf(Tail(calls), id)

\* the add_job calls of job id that returned True, in order
RECURSIVE AddsOf(_, _)
AddsOf(calls, id) ==
    IF calls = << >> THEN << >>
    ELSE IF Head(calls).job_id = id /\ Head(calls).ok
         THEN <<Head(calls).status>> \o AddsOf(Tail(calls), id)
         ELSE AddsOf(Tail(calls), id)

SavedTwice(statuses) ==
    Len(statuses) >= 2 /\ statuses[Len(statuses)] # statuses[Len(statuses) - 1]

\* C3, for DatabaseManager.add_job alone
C3_AddJobReplaces ==
    \A id \in JobIds :
        /\ Cardinality({r \in dm_jobs : r.job_id = id}) <= 1
        /\ SavedTwice(AddsOf(add_calls, id))
             => \E r \in dm_jobs :
                  /\ r.job_id = id
                  /\ r.application_status = AddsOf(add_calls, id)[Len(AddsOf(add_calls, id))]

\* C3: saving a job twice with the same job_id and different status leaves
\* exactly one row for the job_id, holding the latest write; no table ever
\* has two rows of one job_id.
C3_ReplaceSemantics ==
    /\ C3_AddJobReplaces
    /\ \A id \in JobIds :
        /\ Cardinality({r \in jobs : r.job_id = id}) <= 1
        /\ SavedTwice(SavesOf(save_calls, id))
             => \E r \in jobs :
                  /\ r.job_id = id
                  /\ r.status = SavesOf(save_calls, id)[Len(SavesOf(save_calls, id))]

GatewayFailed ==
    \/ gateway.kind = "error"
    \/ gateway.content = << >>
    \/ Len(Split(gateway.content, "|")) # 4

\* C4: when the fit-analysis gateway call fails, analyze_job returns
\* (True, "AI analysis failed, proceeding anyway"); it returns False only for
\* a well-formed response whose first part is not 'yes'.
C4_FailedAnalysisProceeds ==
    /\ (analysis # NoAnalysis /\ api_key /\ GatewayFailed)
         => (analysis.should_apply /\ analysis.message = Failed)
    /\ ~analysis.should_apply
         => /\ gateway.kind = "ok"
            /\ Len(Split(gateway.content, "|")) = 4
            /\ Strip(Lower(Split(gateway.content, "|")[1])) # yes

\* A response that does not split into four parts was analysed.
C4_Witness ==
    /\ api_key
    /\ gateway.kind = "ok"
    /\ gateway.content # << >>
    /\ Len(Split(gateway.content, "|")) # 4
    /\ analysis.message = Failed

(***************************************************************************)
(* Claims about job discovery (SpecListings)                               *)
(***************************************************************************)
\* C5: when no job card is found on any of the max_retries attempts,
\* get_job_listings returns a falsy result and raises no exception.
C5_NoCardsReturnsFalsy ==
    (l_pc = "done" /\ empty_attempts = max_retries) => l_result = "False"

\* C22: the retrieval loop is bounded by its two counters: it makes at most
\* max_retries passes that find no card and at most max_jobs passes that
\* find cards.
C22_RetrievalBounded ==
    /\ empty_attempts <= max_retries
    /\ l_passes <= max_jobs

\* C28: within one call no card has its Easy Apply button clicked in more
\* than one pass.
C28_CardProcessedOnce == \A c \in 1..MaxListed : l_clicked[c] <= 1

(***************************************************************************)
(* Claims about form filling (SpecSteps, SpecForm)                         *)
(***************************************************************************)
\* C6: a selection field that form filling sets, and for which no option is
\* the suggested value, is set to its first option (index 0).
C6_SelectFallsBackToFirst ==
    \A i \in 1..Len(form) :
        (/\ required_fields[i].type = "select"
         /\ form[i].current_value # required_fields[i].current_value)
            => form[i].current_value = Str(<<required_fields[i].options[1]>>)

\* C7: whenever process_application_steps clicks Submit or Next, every
\* required field found on that step holds a non-empty value.
C7_RequiredFilledBeforeAdvance ==
    p_clicked \in {"Submit", "Next"}
        => \A i \in 1..Len(form) : ~Falsy(form[i].current_value)

\* C8: a field that holds a non-empty value when the form is loaded holds the
\* same value after form filling, whatever value is suggested for it.
C8_PrefilledUntouched ==
    \A i \in 1..Len(form_fields) :
        ~Falsy(loaded[i].value) => form_fields[i].value = loaded[i].value

\* the gateway gave nothing to fill in: the call failed, the response was
\* empty or blank, or it was the sentinel SKIP
NothingToFill(value) == value = None \/ value.v = << >> \/ value.v = <<"SKIP">>

SavesOfCard(k) ==
    (card_log[k].mark + 1) ..
        (IF k < Len(card_log) THEN card_log[k + 1].mark ELSE Len(save_calls))

CardsSettled == a_pc \in {"cards", "done"}

LastCard == card_log[Len(card_log)]

PassesNotInterrupted == {k \in 1..Len(card_log) : card_log[k].event # "security"}

NextOnly == [submit |-> FALSE, next |-> TRUE]

\* the walk of the modal is over and the modal showed its first step
WalkedModal == j_pc = "done" /\ j_searched /\ j_step >= 1

\* C14: a walk over a posting with only Next on step 1 and Submit on step 2
\* clicks Next, runs the step loop again and clicks Submit.
C14_NextLoopsToSubmit ==
    (WalkedModal /\ Len(posting) = 2 /\ posting[1] = NextOnly /\ posting[2].submit)
        => \E i \in 1..Len(j_clicked) : j_clicked[i] = "Submit"

\* C16: on a first step that shows both an enabled Submit and an enabled
\* Next, the walk clicks Submit and does not click Next.
C16_SubmitBeforeNext ==
    (WalkedModal /\ posting[1].submit /\ posting[1].next)
        => (Len(j_clicked) >= 2 /\ j_clicked[2] = "Submit")

\* the gateway answered the extraction with a text that is not two parts
\* separated by one '|'
Malformed == j_response.kind = "ok" /\ Len(Split(j_response.content, "|")) # 2

\* C20: after a malformed answer to the extraction, extract_job_details has
\* returned (None, None), analyze_job is not called and apply_to_job goes on
\* to look for the Easy Apply button.
C20_MalformedExtractionProceeds ==
    Malformed =>
        /\ details = NoDetails
        /\ ~j_analysed
        /\ j_pc \in {"button", "walk", "done"}
        /\ j_pc = "done" => j_searched

\* the answer had three parts, the first two of them not empty, and the
\* button was looked for
C20_Witness ==
    /\ j_response = [kind |-> "ok", content |-> <<"d", "|", "d", "|">>]
    /\ j_pc = "done"
    /\ j_searched

(***************************************************************************)
(* Claims about the challenge handler (SpecCheck) and login (SpecLogin)    *)
(***************************************************************************)

\* C21: in LinkedInCaptcha's handler, once the automatic resolution of a
\* verification frame has failed (the solver returned False, or the wait
\* after the click on Verify did), the handler does not return without
\* having called the manual-completion wait; and no wait goes on after
\* its 300 s.
C21_FailedResolutionWaits ==
    /\ v_elapsed <= timeout
    /\ (v_pc = "returned" /\ v_auto = "failed") => v_manual

\* C27: whenever check_for_security_verification has returned, the driver
\* is switched to the top-level document.
C27_ReturnsInTopContext == v_pc = "returned" => v_context = "top"

\* C30: one call of login() clicks the login button at most max_attempts
\* times.
C30_SubmitsBounded == g_submits <= max_attempts

====
